---- MODULE Spec2Model ----
(***************************************************************************)
(* Model of parse_data_from_lalafo.py: the listing walk                    *)
(* (collect_list_links), the per-item extraction (parse_flat_page) with    *)
(* its price/currency merge, and the extraction loop of scrape.            *)
(*                                                                         *)
(* Optional values (Python None / a value) are <<>> / <<v>>.               *)
(***************************************************************************)
EXTENDS Naturals, Sequences, FiniteSets

VARIABLES
    pc,        \* position of scrape / collect_list_links
    page,      \* collect_list_links: loop variable `page`
    cands,     \* anchors of the current feed page not yet iterated
    found,     \* collect_list_links: `found`
    links,     \* collect_list_links: `links`, then scrape's `links`
    seen,      \* collect_list_links: `seen`
    fetches,   \* number of sess.get calls made on feed pages
    why,       \* which log line ended the walk
    rows,      \* scrape: `rows`
    idx,       \* scrape: loop counter `i` (1-based index of the next link)
    itemUrl,   \* parse_flat_page: argument `url`
    itemPage,  \* what sess.get(row.url) delivers for that item
    row,       \* parse_flat_page: the returned FlatDetail
    resp       \* outcome of the last sess.get on a feed page

vars == <<pc, page, cands, found, links, seen, fetches, why, rows, idx,
          itemUrl, itemPage, row, resp>>

(* ------------------------------ bounds --------------------------------- *)

\* MAX_PAGES (150 in the source) and MAX_ITEMS (5000), scaled down.
MAX_PAGES == 3
MAX_ITEMS == 3
\* Distinct item paths the feed can show, and anchors per feed page.
NumUrls == 4
MaxCards == 2

DEEP_SCRAPE == TRUE

None == <<>>
Some(v) == <<v>>

(* ------------------------------- URLs ---------------------------------- *)

\* An href of a listing card: empty, a non-item path, or an item path
\* (/item/, /ads/, /ad/) numbered id, with (q = 1) or without (q = 0) a
\* query string / fragment.
Hrefs ==
    {[kind |-> "empty", id |-> 0, q |-> 0], [kind |-> "other", id |-> 0, q |-> 0]}
    \cup {[kind |-> "item", id |-> n, q |-> t] : n \in 1..NumUrls, t \in 0..1}

\* An absolute URL: its path (id) and whether it carries a query / fragment.
urljoin(href) == [id |-> href.id, q |-> href.q]

normalize_url_DropsNothing(u) == u

normalize_url(u) == [u EXCEPT !.q = 0]

IsItemHref(href) == href.kind = "item"

FeedPages == UNION {[1..n -> Hrefs] : n \in 0..MaxCards}

Range(s) == {s[k] : k \in 1..Len(s)}

(* --------------------------- FlatDetail -------------------------------- *)

\* The fields of FlatDetail that the price/currency merge, the JSON-LD
\* block and the error path write (title stands for the DOM field groups
\* read before the JSON-LD block).
FlatDetail(url) ==
    [url |-> url, title |-> None, price |-> None, currency |-> None,
     jl_price |-> None, jl_currency |-> None, jl_date |-> None,
     jl_location |-> None, error |-> None]

(* ----------------------- JSON values (Python) --------------------------- *)

JNull == [t |-> "null", s |-> "", n |-> 0]
JStr(s) == [t |-> "str", s |-> s, n |-> 0]
JNum(n) == [t |-> "num", s |-> "", n |-> n]

\* Python truthiness of a JSON scalar: None, "" and 0 are falsy.
Truthy(v) == (v.t = "str" /\ v.s # "") \/ (v.t = "num" /\ v.n # 0)

\* Python `a or b`.
PyOr(a, b) == IF Truthy(a) THEN a ELSE b

\* `p not in (None, "")`
NotNoneOrEmpty(p) == ~(p.t = "null" \/ (p.t = "str" /\ p.s = ""))

\* float(p): a number is itself, the string "45000" parses, any other
\* string raises ValueError.
FloatRaises(p) == p.t = "str" /\ p.s # "45000"
FloatValue(p) == IF p.t = "num" THEN p.n ELSE 45000

\* A JSON string-or-null as an optional string.
OptStr(v) == IF v.t = "str" THEN Some(v.s) ELSE None

(* --------------------------- item pages -------------------------------- *)

\* Text of the DOM price element: its digits ("number": they parse to val;
\* "none": no digit, dot or comma; "malformed": float() rejects them) and
\* which currency markers the lower-cased text contains.
DomTexts ==
    [digits : {"number", "none", "malformed"}, val : {3900000},
     usd : BOOLEAN, kgs : BOOLEAN]

\* The object extract_jsonld returns: the shape of "offers", the flat price
\* and currency, whether the offer has a priceSpecification (price 40000,
\* priceCurrency "KGS"), the posted date and the location.
RawPrices == {JNull, JStr(""), JNum(0), JNum(45000), JStr("45000"), JStr("dogovornaya")}
RawCurrencies == {JNull, JStr("USD"), JStr("KGS")}
JsonLds ==
    [offers : {"none", "dict", "list"}, price : RawPrices,
     currency : RawCurrencies, pspec : BOOLEAN,
     date : {None, Some("2024-05-01")},
     loc : {"null", "str", "dict_strings", "dict_object"}]

SpecPrice(j) == IF j.pspec THEN JNum(40000) ELSE JNull
SpecCurrency(j) == IF j.pspec THEN JStr("KGS") ELSE JNull

OkPages ==
    [fetch : {"ok"}, h1 : {None, Some("2-room flat, Bishkek")},
     price_tag : {None} \cup {Some(t) : t \in DomTexts},
     jsonld : {None} \cup {Some(j) : j \in JsonLds}]

FailedPage(f) == [fetch |-> f, h1 |-> None, price_tag |-> None, jsonld |-> None]

ItemPages == OkPages \cup {FailedPage("net_error"), FailedPage("http_error")}

(* -------------------------- parse_flat_page ---------------------------- *)

\* to_float on the text of an element that exists: None when nothing is
\* left after stripping or when float() raises ValueError (caught inside).
to_float(txt) == IF txt.digits = "number" THEN Some(txt.val) ELSE None

\* h1 = soup.select_one(...); row.title = ...
ReadTitle(rw, pg) == [rw EXCEPT !.title = pg.h1]

\* The result of a step that may raise: the row as the step left it, and
\* the exception (None when the step completed).
Done(rw) == [row |-> rw, exc |-> None]
Raised(rw, e) == [row |-> rw, exc |-> Some(e)]

\* `offers = j.get("offers")` and the two branches on its shape. The
\* assignment row.jl_price = float(p) ... raises before anything is stored.
ReadOffers(rw, j) ==
    IF j.offers = "dict"
    THEN LET p == PyOr(j.price, SpecPrice(j))
             c == PyOr(j.currency, SpecCurrency(j))
         IN  IF NotNoneOrEmpty(p) /\ FloatRaises(p)
             THEN Raised(rw, "ValueError")
             ELSE Done([rw EXCEPT
                     !.jl_price = IF NotNoneOrEmpty(p) THEN Some(FloatValue(p)) ELSE None,
                     !.jl_currency = OptStr(c)])
    ELSE IF j.offers = "list"
    THEN LET p == j.price
             c == j.currency
         IN  IF NotNoneOrEmpty(p) /\ FloatRaises(p)
             THEN Raised(rw, "ValueError")
             ELSE Done([rw EXCEPT
                     !.jl_price = IF NotNoneOrEmpty(p) THEN Some(FloatValue(p)) ELSE None,
                     !.jl_currency = OptStr(c)])
    ELSE Done(rw)

\* `loc = j.get("areaServed") or ...`: joining the parts of a dict raises
\* TypeError when one of them is not a string (an addressCountry object).
ReadLocation(rw, j) ==
    IF j.loc = "dict_object" THEN Raised(rw, "TypeError")
    ELSE IF j.loc = "dict_strings"
    THEN Done([rw EXCEPT !.jl_location = Some("Bishkek, Kyrgyzstan")])
    ELSE IF j.loc = "str" THEN Done([rw EXCEPT !.jl_location = Some("Bishkek")])
    ELSE Done(rw)

\* The block `j = extract_jsonld(soup); if j: ...`.
ReadJsonLd(rw, pg) ==
    IF pg.jsonld = None THEN Done(rw)
    ELSE LET j == pg.jsonld[1]
             o == ReadOffers(rw, j)
         IN  IF o.exc # None THEN o
             ELSE ReadLocation([o.row EXCEPT !.jl_date = j.date], j)

\* Currency inferred from the DOM price text: the USD marker is tested first.
DomCurrency(txt, old) ==
    IF txt.usd THEN Some("USD") ELSE IF txt.kgs THEN Some("KGS") ELSE old

DomPriceFallback_Unconditional(rw, pg) ==
    IF pg.price_tag # None
    THEN LET txt == pg.price_tag[1]
         IN  [rw EXCEPT !.price = to_float(txt),
                        !.currency = DomCurrency(txt, rw.currency)]
    ELSE rw

\* `if row.jl_price is None: price_tag = soup.select_one(...) ...`
DomPriceFallback(rw, pg) ==
    IF rw.jl_price = None /\ pg.price_tag # None
    THEN LET txt == pg.price_tag[1]
         IN  [rw EXCEPT !.price = to_float(txt),
                        !.currency = DomCurrency(txt, rw.currency)]
    ELSE rw

\* `if row.jl_price is not None: ...; if row.jl_currency: ...`
JsonLdPriority(rw) ==
    LET r1 == IF rw.jl_price # None THEN [rw EXCEPT !.price = rw.jl_price] ELSE rw
    IN  IF r1.jl_currency # None /\ r1.jl_currency # Some("")
        THEN [r1 EXCEPT !.currency = r1.jl_currency]
        ELSE r1

ExceptHandler_Swallow(rw, e) == rw

\* `except Exception as e: row.error = str(e); return row`
ExceptHandler(rw, e) == [rw EXCEPT !.error = Some(e)]

parse_flat_page(url, pg) ==
    LET row0 == FlatDetail(normalize_url(url))
    IN  IF pg.fetch = "net_error" THEN ExceptHandler(row0, "ConnectionError")
        ELSE IF pg.fetch = "http_error" THEN ExceptHandler(row0, "HTTPError")
        ELSE LET jl == ReadJsonLd(ReadTitle(row0, pg), pg)
             IN  IF jl.exc # None THEN ExceptHandler(jl.row, jl.exc[1])
                 ELSE JsonLdPriority(DomPriceFallback(jl.row, pg))

(* ------------------------ collect_list_links --------------------------- *)

FetchFailed_OnlyExceptions(outcome) == outcome = "net_error"

\* sess.get raised requests.RequestException, or r.status_code >= 400.
FetchFailed(outcome) == outcome \in {"net_error", "http_error"}

CapReached_OffByOne(ls) == Len(ls) > MAX_ITEMS

\* `if len(links) >= MAX_ITEMS`
CapReached(ls) == Len(ls) >= MAX_ITEMS

PageExhausted_Never(f) == FALSE

\* `if found == 0`
PageExhausted(f) == f = 0

\* `for page in range(1, MAX_PAGES + 1)`: the next iteration, or the end of
\* the loop and the final `return links`.
NextPage ==
    IF page + 1 <= MAX_PAGES
    THEN /\ pc' = "fetch"
         /\ page' = page + 1
         /\ why' = why
    ELSE /\ pc' = "walked"
         /\ page' = page
         /\ why' = "max_pages"

\* r = sess.get(url, timeout=30) and the status check; on success the
\* anchors soup.select(...) finds, and found = 0.
FetchPage ==
    /\ pc = "fetch"
    /\ fetches' = fetches + 1
    /\ \E outcome \in {"ok", "net_error", "http_error"}, body \in FeedPages :
          /\ resp' = outcome
          /\ IF FetchFailed(outcome)
             THEN /\ pc' = "walked"
                  /\ why' = "fetch_error"
                  /\ UNCHANGED <<cands, found>>
             ELSE /\ pc' = "scan"
                  /\ cands' = body
                  /\ found' = 0
                  /\ why' = why
    /\ UNCHANGED <<page, links, seen, rows, idx, itemUrl, itemPage, row>>

\* One iteration of `for a in soup.select(...)`.
ScanAnchor ==
    /\ pc = "scan"
    /\ cands # <<>>
    /\ LET href == Head(cands)
           abs_url == normalize_url(urljoin(href))
       IN  /\ cands' = Tail(cands)
           /\ IF href.kind # "empty" /\ IsItemHref(href) /\ abs_url \notin seen
              THEN /\ seen' = seen \cup {abs_url}
                   /\ links' = Append(links, abs_url)
                   /\ found' = found + 1
                   /\ IF CapReached(links')
                      THEN pc' = "walked" /\ why' = "cap"
                      ELSE pc' = "scan" /\ why' = why
              ELSE UNCHANGED <<seen, links, found, pc, why>>
    /\ UNCHANGED <<page, fetches, rows, idx, itemUrl, itemPage, row, resp>>

\* After the anchors of a page: stop on a page without new links, else
\* sleep and go on with the next page.
EndPage ==
    /\ pc = "scan"
    /\ cands = <<>>
    /\ IF PageExhausted(found)
       THEN /\ pc' = "walked"
            /\ why' = "exhausted"
            /\ page' = page
       ELSE NextPage
    /\ UNCHANGED <<cands, found, links, seen, fetches, rows, idx, itemUrl,
                   itemPage, row, resp>>

(* ------------------------------ scrape --------------------------------- *)

\* The item pages the extraction loop is run against: a transport error,
\* an HTTP error status, a page with only a DOM price, a page with a
\* JSON-LD offer and a DOM price, and a page whose JSON-LD price is text.
DomSom == [digits |-> "number", val |-> 3900000, usd |-> FALSE, kgs |-> TRUE]
PageDomOnly ==
    [fetch |-> "ok", h1 |-> Some("2-room flat, Bishkek"),
     price_tag |-> Some(DomSom), jsonld |-> None]
PageOffer ==
    [fetch |-> "ok", h1 |-> Some("2-room flat, Bishkek"),
     price_tag |-> Some(DomSom),
     jsonld |-> Some([offers |-> "dict", price |-> JNum(45000),
                      currency |-> JStr("USD"), pspec |-> FALSE,
                      date |-> Some("2024-05-01"), loc |-> "str"])]
PageTextPrice ==
    [fetch |-> "ok", h1 |-> Some("2-room flat, Bishkek"),
     price_tag |-> Some(DomSom),
     jsonld |-> Some([offers |-> "dict", price |-> JStr("dogovornaya"),
                      currency |-> JStr("USD"), pspec |-> FALSE,
                      date |-> Some("2024-05-01"), loc |-> "str"])]
LoopPages ==
    {FailedPage("net_error"), FailedPage("http_error"), PageDomOnly,
     PageOffer, PageTextPrice}

AppendRow_SkipFailed(rs, r) == IF r.error # None THEN rs ELSE Append(rs, r)

\* rows.append(row)
AppendRow(rs, r) == Append(rs, r)

\* links = collect_list_links(sess); `if not links: return`; rows = [].
ScrapeStart ==
    /\ pc = "walked"
    /\ IF links = <<>>
       THEN pc' = "nolinks" /\ UNCHANGED <<rows, idx>>
       ELSE IF DEEP_SCRAPE
       THEN pc' = "extract" /\ rows' = <<>> /\ idx' = 1
       ELSE /\ pc' = "save"
            /\ rows' = [k \in 1..Len(links) |-> FlatDetail(links[k])]
            /\ idx' = idx
    \* collect_list_links has returned: its locals are gone.
    /\ page' = 1 /\ cands' = <<>> /\ found' = 0 /\ seen' = {} /\ resp' = "none"
    /\ UNCHANGED <<links, fetches, why, itemUrl, itemPage, row>>

\* One iteration of `for i, url in enumerate(links, 1)`.
ExtractItem ==
    /\ pc = "extract"
    /\ idx <= Len(links)
    /\ \E pg \in LoopPages :
          /\ itemUrl' = links[idx]
          /\ itemPage' = pg
          /\ row' = parse_flat_page(links[idx], pg)
          /\ rows' = AppendRow(rows, row')
    /\ idx' = idx + 1
    /\ pc' = IF idx = Len(links) THEN "save" ELSE "extract"
    /\ UNCHANGED <<page, cands, found, links, seen, fetches, why, resp>>

\* The CSV / JSON writers: every row of `rows` is written.
Save ==
    /\ pc = "save"
    /\ pc' = "done"
    /\ UNCHANGED <<page, cands, found, links, seen, fetches, why, rows, idx,
                   itemUrl, itemPage, row, resp>>

NoItem == FailedPage("none")
NoUrl == [id |-> 0, q |-> 0]

Init ==
    /\ pc = "fetch"
    /\ page = 1
    /\ cands = <<>>
    /\ found = 0
    /\ links = <<>>
    /\ seen = {}
    /\ fetches = 0
    /\ why = ""
    /\ rows = <<>>
    /\ idx = 0
    /\ itemUrl = NoUrl
    /\ itemPage = NoItem
    /\ row = FlatDetail(NoUrl)
    /\ resp = "none"

Next == FetchPage \/ ScanAnchor \/ EndPage \/ ScrapeStart \/ ExtractItem \/ Save

Spec == Init /\ [][Next]_vars

(* --------------------- parse_flat_page on its own ---------------------- *)

\* One call of parse_flat_page, on any item URL and any item page.
ItemUrls == {[id |-> n, q |-> t] : n \in {1}, t \in 0..1}

ItemInit ==
    /\ pc = "item_call"
    /\ itemUrl \in ItemUrls
    /\ itemPage \in ItemPages
    /\ row = FlatDetail(NoUrl)
    /\ page = 1
    /\ cands = <<>>
    /\ found = 0
    /\ links = <<>>
    /\ seen = {}
    /\ fetches = 0
    /\ why = ""
    /\ rows = <<>>
    /\ idx = 0
    /\ resp = "none"

ParseItem ==
    /\ pc = "item_call"
    /\ row' = parse_flat_page(itemUrl, itemPage)
    /\ pc' = "item_returned"
    /\ UNCHANGED <<page, cands, found, links, seen, fetches, why, rows, idx,
                   itemUrl, itemPage, resp>>

ItemNext == ParseItem

ItemSpec == ItemInit /\ [][ItemNext]_vars

(* ------------------------------ claims --------------------------------- *)

Walking == pc \in {"fetch", "scan"}
AfterWalk == pc \in {"walked", "nolinks", "extract", "save", "done"}
Canon(href) == [id |-> href.id, q |-> 0]

\* C1: the walk never holds more than MAX_ITEMS links; the moment the count
\* reaches MAX_ITEMS the walk has stopped (no anchor of the page is scanned
\* and no page is fetched any more), and a walk ended by the cap returns
\* exactly MAX_ITEMS links.
C1_CapNeverExceeded ==
    /\ Len(links) <= MAX_ITEMS
    /\ (Len(links) = MAX_ITEMS => ~Walking)
    /\ (why = "cap" => Len(links) = MAX_ITEMS /\ ~Walking)

\* The cap is reached on a page before the last one while the page still
\* has an unscanned anchor that would have been a new link.
C1_Witness ==
    /\ pc = "walked"
    /\ why = "cap"
    /\ Len(links) = MAX_ITEMS
    /\ page < MAX_PAGES
    /\ cands # <<>>
    /\ Head(cands).kind = "item"
    /\ Canon(Head(cands)) \notin seen

\* C2: at the end of a fetched page that yielded no new link the walk
\* stops, whatever the page number, with the links collected so far and
\* without another fetch; the returned links never change afterwards.
C2_StopsOnPageWithoutNewLinks ==
    [][/\ (pc = "scan" /\ cands = <<>> /\ found = 0)
            => (pc' = "walked" /\ why' = "exhausted" /\ links' = links
                /\ fetches' = fetches)
       /\ (why = "exhausted" => links' = links /\ fetches' = fetches)]_vars

\* Page 1 gave two links, page 2 none that is new: two links, two fetches,
\* MAX_PAGES not reached.
C2_Witness ==
    /\ pc = "walked"
    /\ why = "exhausted"
    /\ resp = "ok"
    /\ page = 2
    /\ page < MAX_PAGES
    /\ fetches = 2
    /\ Len(links) = 2

\* C3: a feed fetch that fails (exception or status >= 400) ends the walk
\* at once: the links are returned as they were, and no page is fetched
\* afterwards.
C3_FetchFailureEndsWalk ==
    [][/\ (pc = "fetch" /\ resp' \in {"net_error", "http_error"})
            => (pc' = "walked" /\ why' = "fetch_error" /\ links' = links)
       /\ (why = "fetch_error" => links' = links /\ fetches' = fetches)]_vars

\* Page 2 answers with an HTTP error status after page 1 gave two links.
C3_Witness ==
    /\ pc = "walked"
    /\ why = "fetch_error"
    /\ resp = "http_error"
    /\ page = 2
    /\ fetches = 2
    /\ Len(links) = 2

\* C4: the links are canonical (no query string or fragment), pairwise
\* distinct, exactly the members of `seen` while the walk runs, and only
\* ever grow by an append of a URL that was not seen before.
C4_LinksDistinctInDiscoveryOrder ==
    /\ [](/\ \A i \in 1..Len(links) : links[i].q = 0
          /\ \A i, j \in 1..Len(links) : links[i] = links[j] => i = j
          /\ (Walking \/ pc = "walked") => Range(links) = seen)
    /\ [][\/ links' = links
          \/ /\ pc = "scan"
             /\ links' = Append(links, Canon(Head(cands)))
             /\ Canon(Head(cands)) \notin Range(links)]_vars

\* On page 2 the next anchor carries a query string and points to an item
\* that page 1 already gave.
C4_Witness ==
    /\ pc = "scan"
    /\ page = 2
    /\ Len(links) >= 2
    /\ cands # <<>>
    /\ Head(cands).kind = "item"
    /\ Head(cands).q = 1
    /\ Canon(Head(cands)) = links[1]

\* C5: during the extraction loop the records are those of the links
\* handled so far, and after it there is one record per link, record i
\* carrying the URL of link i.
C5_OneRecordPerLinkInOrder ==
    /\ (pc = "extract" => Len(rows) = idx - 1)
    /\ (pc \in {"save", "done"} => Len(rows) = Len(links))
    /\ (pc \in {"extract", "save", "done"}
            => \A i \in 1..Len(rows) : i <= Len(links) /\ rows[i].url = links[i])

\* Three links, of which the second failed and the others did not.
C5_Witness ==
    /\ pc = "done"
    /\ Len(links) = 3
    /\ Len(rows) = 3
    /\ rows[1].error = None
    /\ rows[2].error # None
    /\ rows[3].error = None

\* C6: when the fetch of an item fails, exactly one record is appended, for
\* that link, with its canonical URL and an error; the earlier records are
\* untouched and the loop goes on with the next link, if there is one.
C6_ItemFailureIsLocal ==
    [][(pc = "extract" /\ itemPage'.fetch \in {"net_error", "http_error"})
          => /\ Len(rows') = Len(rows) + 1
             /\ SubSeq(rows', 1, Len(rows)) = rows
             /\ rows'[Len(rows')].error # None
             /\ rows'[Len(rows')].url = links[idx]
             /\ rows'[Len(rows')].url.q = 0
             /\ idx' = idx + 1
             /\ (idx < Len(links) => pc' = "extract")
             /\ links' = links]_vars

\* The first of three items failed at the transport; the two after it were
\* extracted without error.
C6_Witness ==
    /\ pc = "done"
    /\ Len(rows) = 3
    /\ rows[1].error = Some("ConnectionError")
    /\ rows[1].price = None
    /\ rows[2].error = None
    /\ rows[2].price # None
    /\ rows[3].error = None

Returned == pc = "item_returned"

\* C7: in every record parse_flat_page returns, a structured-data price
\* that is present (jl_price) is the record's price.
C7_StructuredPriceWins ==
    Returned => (row.jl_price # None => row.price = row.jl_price)

\* The two-step procedure of the claim: the DOM fallback first, whatever
\* the structured data, then the structured-data values that are present.
RefUnconditional(tag, jlp, jlc) ==
    LET dp == IF tag # None THEN to_float(tag[1]) ELSE None
        dc == IF tag # None /\ tag[1].usd THEN Some("USD")
              ELSE IF tag # None /\ tag[1].kgs THEN Some("KGS") ELSE None
    IN  <<IF jlp # None THEN jlp ELSE dp, IF jlc # None THEN jlc ELSE dc>>

\* The same with the DOM step taken only when there is no structured-data
\* price.
RefGuarded(tag, jlp, jlc) ==
    LET useDom == jlp = None /\ tag # None
        dp == IF useDom THEN to_float(tag[1]) ELSE None
        dc == IF useDom /\ tag[1].usd THEN Some("USD")
              ELSE IF useDom /\ tag[1].kgs THEN Some("KGS") ELSE None
    IN  <<IF jlp # None THEN jlp ELSE dp, IF jlc # None THEN jlc ELSE dc>>

Merged == Returned /\ row.error = None

\* C8 as stated: the resolved pair is that of the unconditional two-step
\* procedure.
C8_UnconditionalDomStep ==
    Merged => <<row.price, row.currency>>
                = RefUnconditional(itemPage.price_tag, row.jl_price, row.jl_currency)

\* C8 amended: the resolved pair is that of the procedure whose DOM step is
\* taken only when the structured-data price is absent.
C8_GuardedDomStep ==
    Merged => <<row.price, row.currency>>
                = RefGuarded(itemPage.price_tag, row.jl_price, row.jl_currency)

\* A structured-data price without a currency, on a page whose DOM price
\* text carries the local-currency marker: the currency stays none.
C8_Witness ==
    /\ Merged
    /\ row.jl_price = Some(45000)
    /\ row.jl_currency = None
    /\ itemPage.price_tag # None
    /\ itemPage.price_tag[1].kgs
    /\ row.price = Some(45000)
    /\ row.currency = None

\* C9: on a fetched page, the field group that comes after the JSON-LD
\* block, the DOM price fallback, is read whatever happened in the block:
\* with a DOM price element and no structured-data price stored, the
\* record's price is the number read from that element.
C9_LaterFieldGroupsStillRead ==
    (Returned /\ itemPage.fetch = "ok" /\ itemPage.price_tag # None
        /\ row.jl_price = None)
        => row.price = to_float(itemPage.price_tag[1])

\* C10: price and currency of a merged record come from one source: with
\* no structured-data price and a price read from the DOM, the currency is
\* the one inferred from the DOM text, or none.
C10_PriceAndCurrencySameSource ==
    (Merged /\ row.jl_price = None /\ itemPage.price_tag # None
        /\ to_float(itemPage.price_tag[1]) # None)
        => row.currency = DomCurrency(itemPage.price_tag[1], None)

====
